---- MODULE Spec2Model ----
(***************************************************************************)
(* HVS Network Mapper (src/hvsnetwork.py): main() as a state machine.      *)
(*                                                                         *)
(* One action per step of the script: source acquisition, the head of a    *)
(* loop iteration up to the first request, one turn of the 429 retry loop, *)
(* the handling of the final response, and the export.  The matching       *)
(* service, the source of the GeoJSON and the interpreter's library        *)
(* versions are the environment.  Coordinates are integers in units of     *)
(* 1e-5 degree, the precision the polyline is encoded with.                *)
(***************************************************************************)
EXTENDS Integers, Sequences, FiniteSets, TLC

(***************************************************************************)
(* Bounds of the model.                                                    *)
(***************************************************************************)
\* Longest feature list drawn freely from FeatureKinds.
MaxFeatures == 3
\* Longest run of 429 answers the service gives for one feature.
MaxRetries == 2
\* By how many features the long input exceeds the slice of line 65.
MaxOver == 1

(***************************************************************************)
(* Program constants.                                                      *)
(***************************************************************************)
\* hvs_json["features"][0:100]
SliceLimit == 100
\* chosen_osrm_match = 0
chosen_osrm_match == 0
\* buffer(0.1) and simplify(0.1, ...), in units of 1e-5 degree
BufferRadius == 10000
SimplifyTolerance == 10000

Min(a, b) == IF a < b THEN a ELSE b

Last(s) == s[Len(s)]

(***************************************************************************)
(* Python's s[lo:hi] for 0 <= lo <= hi.                                    *)
(***************************************************************************)
PySliceOffByOne(s, lo, hi) == SubSeq(s, lo + 1, Min(hi + 1, Len(s)))

PySlice(s, lo, hi) == SubSeq(s, lo + 1, Min(hi, Len(s)))

(***************************************************************************)
(* Geometry: shapely's shape(), buffer(), simplify(), linemerge(), .coords *)
(***************************************************************************)
P0 == <<0, 0>>
P1 == <<2, -1>>
P2 == <<40000, 3>>
P3 == <<40001, 5>>

LineStringShort == [type |-> "LineString", coordinates |-> <<P0, P1>>]
LineStringLong == [type |-> "LineString", coordinates |-> <<P0, P1, P2>>]
MultiConnected ==
    [type |-> "MultiLineString", coordinates |-> << <<P0, P1>>, <<P1, P2>> >>]
MultiDisjoint ==
    [type |-> "MultiLineString", coordinates |-> << <<P0, P1>>, <<P2, P3>> >>]

\* shape(each_feature["geometry"]): a LineString holds one line, a
\* MultiLineString a list of lines.
shape(geometry) ==
    [geom_type |-> geometry.type,
     lines |-> IF geometry.type = "LineString"
               THEN <<geometry.coordinates>>
               ELSE geometry.coordinates]

Dist2(p, q) == (p[1] - q[1]) * (p[1] - q[1]) + (p[2] - q[2]) * (p[2] - q[2])

\* Two lines whose buffers of radius r overlap (decided on their vertices).
Near(l1, l2, r) ==
    \E i \in DOMAIN l1, j \in DOMAIN l2 : Dist2(l1[i], l2[j]) <= (2 * r) * (2 * r)

RECURSIVE Grow(_, _, _)
Grow(lines, S, r) ==
    LET T == S \cup {j \in DOMAIN lines : \E i \in S : Near(lines[i], lines[j], r)}
    IN  IF T = S THEN S ELSE Grow(lines, T, r)

\* geometry.buffer(r): the area within r of the lines, a Polygon when it is
\* in one piece and a MultiPolygon otherwise.  Its rings are read by nothing
\* downstream; the pieces are kept as the sets of lines they cover.
buffer(g, r) ==
    LET pieces == {Grow(g.lines, {i}, r) : i \in DOMAIN g.lines}
    IN  [geom_type |-> IF Cardinality(pieces) <= 1 THEN "Polygon" ELSE "MultiPolygon",
         pieces |-> pieces,
         tolerance |-> 0]

\* geometry.simplify(tol, preserve_topology = False): fewer vertices, the
\* same kind of geometry.
simplify(g, tol) == [g EXCEPT !.tolerance = tol]

\* The lines of a MultiLineString joined end to end where they touch.
RECURSIVE Chain(_, _)
Chain(lines, acc) ==
    IF lines = <<>> THEN acc
    ELSE LET l == Head(lines)
         IN  IF acc # <<>> /\ Last(Last(acc)) = Head(l)
             THEN Chain(Tail(lines),
                        SubSeq(acc, 1, Len(acc) - 1) \o <<Last(acc) \o Tail(l)>>)
             ELSE Chain(Tail(lines), Append(acc, l))

\* shapely.ops.linemerge(lines): merges a MultiLineString; takes the .coords
\* of each member of any other collection, which a Polygon member refuses
\* (NotImplementedError); refuses anything else (ValueError).
linemerge(g) ==
    IF g.geom_type = "MultiLineString"
    THEN LET merged == Chain(g.lines, <<>>)
         IN  [raised |-> "",
              geom |-> [geom_type |-> IF Len(merged) = 1 THEN "LineString"
                                      ELSE "MultiLineString",
                        lines |-> merged]]
    ELSE IF g.geom_type = "MultiPolygon"
    THEN [raised |-> "NotImplementedError", geom |-> g]
    ELSE [raised |-> "ValueError", geom |-> g]

\* Lines 78-96 up to road_geography.coords: the coordinate sequence handed
\* to polyline.encode, or the exception and the line that raises it.
Normalize(geometry) ==
    LET g == shape(geometry)
    IN  IF g.geom_type = "MultiLineString"
        THEN LET m == linemerge(simplify(buffer(g, BufferRadius), SimplifyTolerance))
             IN  IF m.raised # ""
                 THEN [raised |-> m.raised, line |-> 91, coords |-> <<>>]
                 ELSE IF m.geom.geom_type = "LineString"
                 THEN [raised |-> "", line |-> 0, coords |-> m.geom.lines[1]]
                 ELSE [raised |-> "NotImplementedError", line |-> 96, coords |-> <<>>]
        ELSE [raised |-> "", line |-> 0, coords |-> g.lines[1]]

(***************************************************************************)
(* polyline.encode(coords, precision = 5): per coordinate the difference   *)
(* to the previous point, shifted left, inverted when negative, cut into   *)
(* 5-bit chunks from the low end, each chunk a character code.             *)
(***************************************************************************)
ZigZag(v) == IF v >= 0 THEN 2 * v ELSE -(2 * v) - 1

RECURSIVE Chunks(_)
Chunks(c) ==
    IF c >= 32 THEN <<(32 + (c % 32)) + 63>> \o Chunks(c \div 32)
    ELSE <<c + 63>>

RECURSIVE EncodeFrom(_, _, _)
EncodeFrom(coords, i, prev) ==
    IF i > Len(coords) THEN <<>>
    ELSE Chunks(ZigZag(coords[i][1] - prev[1]))
         \o Chunks(ZigZag(coords[i][2] - prev[2]))
         \o EncodeFrom(coords, i + 1, coords[i])

PolylineEncode(coords) == EncodeFrom(coords, 1, <<0, 0>>)

\* osrm_url of lines 99-101, the server prefix left out.
OsrmUrl(encoded) ==
    [path |-> "route/v1/driving/polyline",
     polyline |-> encoded,
     query |-> "steps=false&geometries=geojson&overview=full&annotations=true"]

(***************************************************************************)
(* The input: GeoJSON features.                                            *)
(***************************************************************************)
Feature(road, name, geometry) ==
    [properties |-> [ROAD |-> road, ROAD_NAME |-> name], geometry |-> geometry]

FeatureKinds ==
    {Feature("H001", "Albany Hwy", LineStringShort),
     Feature("H002", "Brand Hwy", LineStringLong),
     Feature("H003", "Coalfields Hwy", MultiConnected),
     Feature("H004", "Dampier Hwy", MultiDisjoint)}

\* A collection longer than the slice: one feature repeated, and a last
\* feature that differs from it.
LongInput ==
    [i \in 1..(SliceLimit + MaxOver) |->
        IF i = SliceLimit + MaxOver
        THEN Feature("H002", "Brand Hwy", LineStringLong)
        ELSE Feature("H001", "Albany Hwy", LineStringShort)]

Inputs == UNION {[1..n -> FeatureKinds] : n \in 0..MaxFeatures} \cup {LongInput}

\* The source the configuration points at: one that cannot be fetched or
\* opened, one whose text is no JSON, a document without "features", or a
\* feature collection.
SourceFaults == {"fetch", "parse", "features"}

Sources ==
    [fault : {""}, features : Inputs] \cup [fault : SourceFaults, features : {<<>>}]

(***************************************************************************)
(* The matching service.  A 200 answer carries the match of the requested  *)
(* polyline (two routes; the number of legs and the node ids follow the    *)
(* request) or a body without routes; a 429 answer may or may not carry    *)
(* the X-Rate-Limit-Interval header.                                       *)
(***************************************************************************)
Route(s, alt) ==
    [legs |-> [k \in 1..(1 + (s % 2)) |->
                  [annotation |-> [nodes |-> <<100 * alt + s + k, 100 * alt + s + k + 1>>]]],
     geometry |-> [coordinates |-> <<<<s, alt>>, <<s + 1, alt>>>>]]

OsrmMatch(url) == [routes |-> <<Route(Len(url.polyline), 0), Route(Len(url.polyline), 1)>>]

NoRoutes == [routes |-> <<>>]

NoHeaders == {}

Response(status, headers, body) ==
    [status_code |-> status, headers |-> headers, body |-> body]

NoResponse == Response(0, NoHeaders, NoRoutes)

HeaderValues == {"4", "soon"}

\* What requests.get(osrm_url) can return once the service has answered 429
\* n429 times for this feature.
Responses(url, seen429) ==
    {Response(200, NoHeaders, OsrmMatch(url)),
     Response(200, NoHeaders, NoRoutes),
     Response(404, NoHeaders, NoRoutes),
     Response(503, NoHeaders, NoRoutes)}
    \cup (IF seen429 < MaxRetries
          THEN {Response(429, NoHeaders, NoRoutes)}
               \cup {Response(429, {<<"X-Rate-Limit-Interval", v>>}, NoRoutes) :
                        v \in HeaderValues}
          ELSE {})

HasHeader(resp, name) == \E h \in resp.headers : h[1] = name

HeaderValue(resp, name) == (CHOOSE h \in resp.headers : h[1] = name)[2]

\* int(text): the number a decimal numeral denotes, -1 for text int() refuses.
IntOf(text) == IF text = "4" THEN 4 ELSE -1

(***************************************************************************)
(* State.                                                                  *)
(***************************************************************************)
VARIABLES
    pc,           \* where main() is: start, loop, respond, done, crashed
    source,       \* what HVS_URL or HVS_PATH holds: a fault, or the features
    hvs_json,     \* the sliced feature list (line 65)
    idx,          \* number of features the for loop has taken (line 71)
    osrm_url,     \* the request of the current feature (lines 99-101)
    osrm_data,    \* the latest response (lines 108, 122)
    return_list,  \* the output records (lines 68, 137)
    requests,     \* requests.get(osrm_url) calls made for the current feature
    sleeps,       \* time.sleep calls made for the current feature
    n429,         \* 429 answers received for the current feature
    stdout,       \* the last line printed
    error,        \* the unhandled exception that ended the run, and its line
    csv           \* the output file: times written, header, rows

vars == <<pc, source, hvs_json, idx, osrm_url, osrm_data, return_list,
          requests, sleeps, n429, stdout, error, csv>>

NoError == [type |-> "", line |-> 0]

Printed(text, code) == [text |-> text, code |-> code]

NoUrl == OsrmUrl(<<>>)

Init ==
    /\ pc = "start"
    /\ source \in Sources
    /\ hvs_json = <<>>
    /\ idx = 0
    /\ osrm_url = NoUrl
    /\ osrm_data = NoResponse
    /\ return_list = <<>>
    /\ requests = 0
    /\ sleeps = 0
    /\ n429 = 0
    /\ stdout = Printed("", 0)
    /\ error = NoError
    /\ csv = [writes |-> 0, header |-> <<>>, rows |-> <<>>]

\* An exception nothing catches: main() is called bare (line 160), so the
\* run ends there and the export of lines 149-151 is never reached.
CrashSavingOutput(type, line) ==
    /\ pc' = "crashed"
    /\ error' = [type |-> type, line |-> line]
    /\ csv' = [writes |-> csv.writes + 1,
               header |-> <<"id", "name", "node_list", "coord_list">>,
               rows |-> return_list]

Crash(type, line) ==
    /\ pc' = "crashed"
    /\ error' = [type |-> type, line |-> line]
    /\ csv' = csv

(***************************************************************************)
(* Lines 30-68: source acquisition, the CRS note, the slice, the empty     *)
(* output list.  requests.get, open, .json() and json.loads raise on a     *)
(* network error, an unreadable file and unparsable text; a document       *)
(* without "features" raises at line 65.                                   *)
(***************************************************************************)
AcquireError(fault, use_url) ==
    IF fault = "fetch"
    THEN IF use_url THEN [type |-> "ConnectionError", line |-> 43]
         ELSE [type |-> "IOError", line |-> 50]
    ELSE IF fault = "parse"
    THEN [type |-> "ValueError", line |-> IF use_url THEN 44 ELSE 51]
    ELSE [type |-> "KeyError", line |-> 65]

Retrieving(use_url) ==
    Printed(IF use_url THEN "Retrieving data from Main Roads / ESRI..."
            ELSE "Retrieving data from file.", 0)

CrsNote(has_crs) ==
    IF has_crs THEN Printed("NOTE: A CRS has been specified.", 0)
    ELSE Printed("NOTE: There is no CRS specified in the root element.", 0)

AcquireSwallowingErrors ==
    /\ pc = "start"
    /\ \E use_url \in BOOLEAN, has_crs \in BOOLEAN :
          /\ hvs_json' = PySlice(source.features, 0, SliceLimit)
          /\ return_list' = <<>>
          /\ stdout' = IF source.fault = "" THEN CrsNote(has_crs)
                       ELSE Printed(AcquireError(source.fault, use_url).type, 0)
          /\ pc' = "loop"
          /\ UNCHANGED <<error, csv>>
    /\ UNCHANGED <<source, idx, osrm_url, osrm_data, requests, sleeps, n429>>

Acquire ==
    /\ pc = "start"
    /\ \E use_url \in BOOLEAN, has_crs \in BOOLEAN :
          IF source.fault = ""
          THEN /\ hvs_json' = PySlice(source.features, 0, SliceLimit)
               /\ return_list' = <<>>
               /\ stdout' = CrsNote(has_crs)
               /\ pc' = "loop"
               /\ UNCHANGED <<error, csv>>
          ELSE /\ Crash(AcquireError(source.fault, use_url).type,
                        AcquireError(source.fault, use_url).line)
               /\ stdout' = IF source.fault = "features" THEN CrsNote(has_crs)
                            ELSE Retrieving(use_url)
               /\ UNCHANGED <<hvs_json, return_list>>
    /\ UNCHANGED <<source, idx, osrm_url, osrm_data, requests, sleeps, n429>>

(***************************************************************************)
(* Lines 71-108: the for loop takes the next feature, normalizes its       *)
(* geometry, prints it, encodes it, builds the URL and sends the first     *)
(* request.                                                                *)
(***************************************************************************)
NextFeature ==
    /\ pc = "loop"
    /\ idx < Len(hvs_json)
    /\ idx' = idx + 1
    /\ LET each_feature == hvs_json[idx + 1]
           norm == Normalize(each_feature.geometry)
       IN  IF norm.raised # ""
           THEN /\ Crash(norm.raised, norm.line)
                /\ stdout' = IF norm.line > 93
                             THEN Printed("MULTILINESTRING", 0)
                             ELSE stdout
                /\ UNCHANGED <<osrm_url, osrm_data, requests, sleeps, n429>>
           ELSE /\ stdout' = Printed("LINESTRING", Len(norm.coords))
                /\ osrm_url' = OsrmUrl(PolylineEncode(norm.coords))
                /\ \E resp \in Responses(osrm_url', 0) :
                      /\ osrm_data' = resp
                      /\ n429' = IF resp.status_code = 429 THEN 1 ELSE 0
                /\ requests' = 1
                /\ sleeps' = 0
                /\ pc' = "respond"
                /\ UNCHANGED <<error, csv>>
    /\ UNCHANGED <<source, hvs_json, return_list>>

(***************************************************************************)
(* Lines 112-122: one turn of the retry loop.  The header lookup raises    *)
(* KeyError when the header is absent, int() raises ValueError on text     *)
(* that is no numeral; otherwise sleep and ask again.                      *)
(***************************************************************************)
RetryWithoutSleep ==
    /\ pc = "respond"
    /\ osrm_data.status_code = 429
    /\ IF ~HasHeader(osrm_data, "X-Rate-Limit-Interval")
       THEN /\ Crash("KeyError", 116)
            /\ UNCHANGED <<osrm_data, requests, sleeps, n429>>
       ELSE IF IntOf(HeaderValue(osrm_data, "X-Rate-Limit-Interval")) < 0
       THEN /\ Crash("ValueError", 116)
            /\ UNCHANGED <<osrm_data, requests, sleeps, n429>>
       ELSE /\ \E resp \in Responses(osrm_url, n429) :
                  /\ osrm_data' = resp
                  /\ n429' = IF resp.status_code = 429 THEN n429 + 1 ELSE n429
            /\ requests' = requests + 1
            /\ UNCHANGED <<pc, error, csv, sleeps>>
    /\ UNCHANGED <<source, hvs_json, idx, osrm_url, return_list, stdout>>

Retry ==
    /\ pc = "respond"
    /\ osrm_data.status_code = 429
    /\ IF ~HasHeader(osrm_data, "X-Rate-Limit-Interval")
       THEN /\ Crash("KeyError", 116)
            /\ UNCHANGED <<osrm_data, requests, sleeps, n429>>
       ELSE IF IntOf(HeaderValue(osrm_data, "X-Rate-Limit-Interval")) < 0
       THEN /\ Crash("ValueError", 116)
            /\ UNCHANGED <<osrm_data, requests, sleeps, n429>>
       ELSE /\ sleeps' = sleeps + 1
            /\ \E resp \in Responses(osrm_url, n429) :
                  /\ osrm_data' = resp
                  /\ n429' = IF resp.status_code = 429 THEN n429 + 1 ELSE n429
            /\ requests' = requests + 1
            /\ UNCHANGED <<pc, error, csv>>
    /\ UNCHANGED <<source, hvs_json, idx, osrm_url, return_list, stdout>>

(***************************************************************************)
(* Lines 125-145: the final response.  On 200 the record is built from     *)
(* route chosen_osrm_match of the body and appended; indexing a body       *)
(* without routes raises.  On anything else the status code is printed.    *)
(***************************************************************************)
MakeRecordOtherRoute(each_feature, osrm_json) ==
    LET route == osrm_json.routes[chosen_osrm_match + 2]
    IN  [id |-> each_feature.properties.ROAD,
         name |-> each_feature.properties.ROAD_NAME,
         node_list |-> [k \in 1..Len(route.legs) |-> route.legs[k].annotation.nodes],
         coord_list |-> route.geometry.coordinates]

MakeRecord(each_feature, osrm_json) ==
    LET route == osrm_json.routes[chosen_osrm_match + 1]
    IN  [id |-> each_feature.properties.ROAD,
         name |-> each_feature.properties.ROAD_NAME,
         node_list |-> [k \in 1..Len(route.legs) |-> route.legs[k].annotation.nodes],
         coord_list |-> route.geometry.coordinates]

InsertRecordFirst(list, record) == <<record>> \o list

AppendRecord(list, record) == Append(list, record)

FailureMessage(status) == Printed("Iteration failed with HTTP error code ", status)

CollectRecordingFailures ==
    /\ pc = "respond"
    /\ osrm_data.status_code # 429
    /\ IF osrm_data.status_code = 200
       THEN IF Len(osrm_data.body.routes) <= chosen_osrm_match
            THEN /\ Crash("IndexError", 130)
                 /\ UNCHANGED <<return_list, stdout>>
            ELSE /\ return_list' =
                       AppendRecord(return_list, MakeRecord(hvs_json[idx], osrm_data.body))
                 /\ pc' = "loop"
                 /\ UNCHANGED <<stdout, error, csv>>
       ELSE /\ stdout' = FailureMessage(osrm_data.status_code)
            /\ return_list' =
                  AppendRecord(return_list,
                               [id |-> hvs_json[idx].properties.ROAD,
                                name |-> hvs_json[idx].properties.ROAD_NAME,
                                node_list |-> <<>>,
                                coord_list |-> <<>>])
            /\ pc' = "loop"
            /\ UNCHANGED <<error, csv>>
    /\ UNCHANGED <<source, hvs_json, idx, osrm_url, osrm_data, requests, sleeps, n429>>

Collect ==
    /\ pc = "respond"
    /\ osrm_data.status_code # 429
    /\ IF osrm_data.status_code = 200
       THEN IF Len(osrm_data.body.routes) <= chosen_osrm_match
            THEN /\ Crash("IndexError", 130)
                 /\ UNCHANGED <<return_list, stdout>>
            ELSE /\ return_list' =
                       AppendRecord(return_list, MakeRecord(hvs_json[idx], osrm_data.body))
                 /\ pc' = "loop"
                 /\ UNCHANGED <<stdout, error, csv>>
       ELSE /\ stdout' = FailureMessage(osrm_data.status_code)
            /\ pc' = "loop"
            /\ UNCHANGED <<return_list, error, csv>>
    /\ UNCHANGED <<source, hvs_json, idx, osrm_url, osrm_data, requests, sleeps, n429>>

(***************************************************************************)
(* Lines 149-151: pandas.DataFrame(return_list).to_csv(..., index = False).*)
(* The columns are inferred from the keys of the records: none when there  *)
(* is no record; otherwise in the order of the dict literal of line 137    *)
(* (pandas 0.25 and later) or sorted (earlier releases, the only ones the  *)
(* Python 2 interpreter of the module docstring can run).                  *)
(***************************************************************************)
RecordKeys == <<"id", "name", "node_list", "coord_list">>

SortedKeys == <<"coord_list", "id", "name", "node_list">>

Columns(records) == IF records = <<>> THEN {<<>>} ELSE {RecordKeys, SortedKeys}

Export ==
    /\ pc = "loop"
    /\ idx = Len(hvs_json)
    /\ stdout' = Printed("Outputting to CSV...", 0)
    /\ \E header \in Columns(return_list) :
          csv' = [writes |-> csv.writes + 1, header |-> header, rows |-> return_list]
    /\ pc' = "done"
    /\ UNCHANGED <<source, hvs_json, idx, osrm_url, osrm_data, return_list,
                   requests, sleeps, n429, error>>

Next == Acquire \/ NextFeature \/ Retry \/ Collect \/ Export

Spec == Init /\ [][Next]_vars

(***************************************************************************)
(* Properties.                                                             *)
(***************************************************************************)
C2_Keys == {"id", "name", "node_list", "coord_list"}

C1_Matched == pc = "respond" /\ osrm_data.status_code = 200 /\ pc' = "loop"

\* C1: the rows of the CSV are the features whose matching call ended in
\* HTTP 200, one row each, in processing order: the loop takes the features
\* one by one in input order, a step changes return_list exactly when it
\* ends a feature on a 200, and then by one record of that feature at the
\* end; the file is written from return_list once the loop has finished.
C1_RowsAreMatchedFeatures ==
    [][/\ idx' \in {idx, idx + 1}
       /\ C1_Matched =>
             /\ Len(return_list') = Len(return_list) + 1
             /\ SubSeq(return_list', 1, Len(return_list)) = return_list
             /\ Last(return_list').id = hvs_json[idx].properties.ROAD
       /\ ~C1_Matched => return_list' = return_list
       /\ csv' # csv =>
             /\ idx = Len(hvs_json)
             /\ pc' = "done"
             /\ csv'.rows = return_list]_vars

C1_Witness ==
    /\ pc = "done"
    /\ idx = 3
    /\ Len(csv.rows) = 2
    /\ csv.rows[1].id = hvs_json[1].properties.ROAD
    /\ csv.rows[2].id = hvs_json[3].properties.ROAD
    /\ csv.rows[1].id # csv.rows[2].id

\* C2: after a 200 the record appended holds the feature's ROAD and
\* ROAD_NAME, the annotation.nodes of every leg of route 0 in leg order and
\* the geometry.coordinates of route 0, and no other key.
C2_RecordFromRouteZero ==
    (pc = "loop" /\ idx >= 1 /\ osrm_data.status_code = 200) =>
        /\ return_list # <<>>
        /\ LET rec == Last(return_list)
               route == osrm_data.body.routes[1]
           IN  /\ DOMAIN rec = C2_Keys
               /\ rec.id = hvs_json[idx].properties.ROAD
               /\ rec.name = hvs_json[idx].properties.ROAD_NAME
               /\ Len(rec.node_list) = Len(route.legs)
               /\ \A k \in 1..Len(route.legs) :
                     rec.node_list[k] = route.legs[k].annotation.nodes
               /\ rec.coord_list = route.geometry.coordinates

C2_Witness ==
    /\ pc = "loop"
    /\ osrm_data.status_code = 200
    /\ Len(return_list) = 2
    /\ Len(osrm_data.body.routes[1].legs) = 2
    /\ Len(return_list[2].node_list) = 2

\* C3: a final status other than 200 and 429 appends no record, prints a
\* message with that status code, makes no further request for the feature
\* and returns to the head of the loop.
C3_OtherStatusSkipsFeature ==
    [][(pc = "respond" /\ osrm_data.status_code \notin {200, 429}) =>
          /\ return_list' = return_list
          /\ stdout'.text = "Iteration failed with HTTP error code "
          /\ stdout'.code = osrm_data.status_code
          /\ requests' = requests
          /\ osrm_data' = osrm_data
          /\ idx' = idx
          /\ pc' = "loop"
          /\ csv' = csv]_vars

C3_Witness ==
    /\ pc = "respond"
    /\ idx = 2
    /\ return_list = <<>>
    /\ requests = 1

C5_FirstHundredOnly ==
    (source.fault = "" /\ pc # "start") =>
        LET n == Len(source.features)
        IN  /\ Len(hvs_json) = Min(n, SliceLimit)
            /\ \A i \in 1..Len(hvs_json) : hvs_json[i] = source.features[i]
            /\ idx <= Min(n, SliceLimit)
            /\ Len(return_list) <= idx
            /\ pc = "done" => idx = Min(n, SliceLimit)
            /\ pc = "respond" =>
                  /\ idx >= 1
                  /\ osrm_url.polyline =
                        PolylineEncode(source.features[idx].geometry.coordinates)

C5_Witness ==
    /\ pc = "done"
    /\ Len(source.features) > SliceLimit
    /\ idx = SliceLimit
    /\ Len(csv.rows) = SliceLimit

\* C6: the retry loop is left only on an answer other than 429, and a run
\* whose features are all answered ends at the export: once the features
\* are acquired nothing but the export ends the run.
C6_OnlyExportEndsTheLoop ==
    pc = "crashed" => source.fault # ""

C7_Connectable(lines) ==
    \A i \in 1..(Len(lines) - 1) : Last(lines[i]) = Head(lines[i + 1])

\* C7: a MultiLineString feature with connectable segments is normalized
\* without an exception and goes on to the matching call; a LineString
\* feature is encoded as it is.
C7_MultiLineStringIsMerged ==
    (source.fault = "" /\ idx >= 1) =>
        LET geometry == hvs_json[idx].geometry
        IN  /\ (geometry.type = "MultiLineString" /\ C7_Connectable(geometry.coordinates))
                  => ~(pc = "crashed" /\ error.line <= 96)
            /\ (geometry.type = "LineString" /\ pc = "respond")
                  => osrm_url.polyline = PolylineEncode(geometry.coordinates)

\* C8: the CSV of a run that reaches the export has the header
\* id,name,node_list,coord_list, whatever the number of records.
C8_HeaderAlways ==
    pc = "done" => csv.header = <<"id", "name", "node_list", "coord_list">>

\* C9: a source that cannot be fetched, opened or parsed ends the run at
\* once: no feature is taken, no request made, no file written.
C9_AcquisitionFailureIsFatal ==
    (source.fault # "" /\ pc # "start") =>
        /\ pc = "crashed"
        /\ error.line <= 65
        /\ idx = 0
        /\ requests = 0
        /\ osrm_data.status_code = 0
        /\ return_list = <<>>
        /\ csv.writes = 0
        /\ ~ENABLED Next

C9_Witness ==
    /\ pc = "crashed"
    /\ source.fault = "parse"
    /\ error.type = "ValueError"

\* C10: the file is written at most once and only after the last feature;
\* return_list only grows, by one record at its end, and is never longer
\* than the number of features taken; a run that an exception ends writes
\* no file and takes no further step.
C10_WrittenOnceAfterLoop ==
    [][/\ \/ return_list' = return_list
          \/ /\ Len(return_list') = Len(return_list) + 1
             /\ SubSeq(return_list', 1, Len(return_list)) = return_list
       /\ Len(return_list') <= idx'
       /\ csv' # csv =>
             /\ csv.writes = 0
             /\ csv'.writes = 1
             /\ pc = "loop"
             /\ idx = Len(hvs_json)
             /\ pc' = "done"
       /\ pc' = "crashed" => csv'.writes = 0
       /\ pc \notin {"crashed", "done"}]_vars

C10_Witness ==
    /\ pc = "crashed"
    /\ error = [type |-> "KeyError", line |-> 116]
    /\ Len(return_list) = 2
    /\ csv.writes = 0

====
